---- MODULE Spec2Model ----
(***************************************************************************)
(* The command/control channel of digitalarchitects_v1:                    *)
(* WebSocketClientManager (core/websocketManager.py) with its callers      *)
(* ArchitectToolManager, UnityStateSync and EnvironmentAgent, the remote   *)
(* host and the endpoint.                                                  *)
(*                                                                         *)
(* Python binds a method name to the LAST definition in the class body,    *)
(* so connect is lines 65-73, start is lines 80-84 and send_command is     *)
(* lines 111-125; the earlier definitions of the same names are dead.      *)
(* The message codec is json.dumps / json.loads as send_command uses them, *)
(* and the validator is MessageValidator of middleware/message_validator.py.*)
(* asyncio runs one task at a time and switches only at an await, so one   *)
(* action is the code between two awaits.                                  *)
(***************************************************************************)
EXTENDS Integers, Sequences, FiniteSets, TLC

\* Commands created in one run (send_command calls, queued messages, actions).
MaxCmds == 3
\* Transmission attempts of one queued message that are explored.
MaxAttempts == 4
\* WebSocketConfig.retry_attempts, the only retry cap the code declares.
retry_attempts == 3
\* Endpoint changes, transport drops and direct connect()/disconnect() calls in one run.
MaxEvents == 2

CRITICAL_ACTIONS == {"delete_environment", "reset_scene", "modify_core_settings"}

EnvironmentActionType ==
    {"import_model", "place_model", "modify_terrain", "analyze_area", "get_state", "update_state"}

\* The action kinds the autonomous producers hand over in the explored runs.
ActionKinds == {"place_model", "delete_environment"}
\* The field of the command that names what the host is asked to do.
ActionFields == {"type", "action"}
\* What the subclass's _plan_actions returns in the explored runs.
PlannedTypes == {"modify_terrain"}

\* Tasks that call send_command.
Callers == {"manual", "sync", "auto", "agent"}
Procs == Callers \cup {"monitor", "drain", "user"}
\* Commands produced by unattended decision loops.
Unattended == {"auto", "agent"}

NoCmd == [id |-> 0, field |-> "none", kind |-> "none", origin |-> "none"]
NoResult == [status |-> "none", re |-> 0]
Failure == [status |-> "failure", re |-> 0]

\* Fields other than "type" and "category" that the validator looks for.
PayloadKeys == {"api_key", "message", "metadata", "status", "state", "action",
                "timestamp", "state_type", "state_data", "data"}
\* Fields no validator looks for that a message carries besides.
MaxExtra == 1

\* class MessageCategory.
MessageCategory == {"architect", "system", "environment", "ui"}
\* The values of "category" and of "type" in the explored messages; "absent"
\* stands for a dictionary without the key.
Absent == "absent"
CategoryValues == MessageCategory \cup {"telemetry"}
TypeValues == {"request", "response", "state_update", "handshake"}
\* What the payload fields hold: a str, a list, or a tuple (a position, a scale).
PyValues == {"str", "list", "tuple"}

\* A message: whether it is a dict, its "category" and "type", the other fields
\* present, what they hold, and how many further fields it carries.
NotADict == [dict |-> FALSE, category |-> Absent, type |-> Absent, fields |-> {},
             value |-> "str", extra |-> 0]
None == [dict |-> FALSE, category |-> Absent, type |-> Absent, fields |-> {},
         value |-> "None", extra |-> 0]
Messages ==
    [dict : {TRUE}, category : CategoryValues \cup {Absent}, type : TypeValues \cup {Absent},
     fields : SUBSET PayloadKeys, value : PyValues, extra : 0..MaxExtra]
        \cup {NotADict}

\* JSON text: an object or another value, with the members' values as JSON has
\* them (a string or an array).
NoText == [object |-> FALSE, category |-> Absent, type |-> Absent, fields |-> {},
           value |-> "none", extra |-> 0]

\* ValidationResult(is_valid, error_message=None, validated_data=None)
ValidationResult(is_valid, error_message, validated_data) ==
    [is_valid |-> is_valid, error_message |-> error_message,
     validated_data |-> validated_data]
NoValidation == ValidationResult(FALSE, "not validated", None)

VARIABLES
    connection,       \* self.connection: "None", or a transport that is "open" or "closed"
    is_connected,     \* self.is_connected (asyncio.Event)
    autonomous_mode,  \* self.autonomous_mode
    message_queue,    \* self.message_queue
    action_queue,     \* self.action_queue
    reachable,        \* whether the endpoint accepts connections
    hostq,            \* commands the host received on the transport and has not answered
    inbox,            \* messages the transport holds for the next recv()
    waiter,           \* the task suspended in connection.recv(), or "none"
    stale,            \* tasks suspended in recv() of a transport that was replaced
    pc,               \* where each task is
    cmd,              \* the command of each caller's current or last send_command
    result,           \* what each caller's last send_command returned
    gated,            \* whether _requires_user_approval ran on the caller's command
    held,             \* the message the drain loop took from the queue
    attempts,         \* per command id, how often the drain loop tried to transmit it
    active,           \* EnvironmentManager.active
    started,          \* start() was called
    connect_result,   \* what the last connect() call gave its caller
    approval,         \* ids of the actions logged as requiring user approval
    subDown,          \* ids of the commands submitted while no transport was open
    sent,             \* what the transport observed, in order
    send_failed,      \* some send was attempted with no open transport and raised
    nextId,           \* the id of the next command created
    events,           \* endpoint changes, drops and connect()/disconnect() calls so far
    msg,              \* the message handed to the validator or the codec
    wire,             \* what json.dumps made of the message
    decoded,          \* what json.loads made of the wire text
    validation,       \* the ValidationResult of the last validate_message call
    vpc,              \* how far the message has gone through the codec and the validator
    states,                 \* AgentStateManager.states: the status of each id's AgentState
    state_change_callbacks, \* AgentStateManager.state_change_callbacks
    instances,              \* InstanceManager.instances: the status of each id's instance
    architect_relationships, \* the ids that have an entry in architect_relationships
    creating,         \* the id of the current or last create_instance call
    cpc,              \* where the create_instance call is
    cidx,             \* the index of the next callback _notify_state_change awaits
    notified,         \* the callbacks awaited for the current registration, in order
    listening,        \* the callbacks that were registered when the change was published
    callback_failed,  \* a callback raised and the error was logged
    collaborators,    \* architect_relationships: the set stored under each id
    focus,            \* the collaboration_focus of each stored instance
    stored,           \* the keys of InstanceManager.instances, in insertion order
    current_task,     \* AgentState.current_task of each id
    terminated,       \* the ids terminate_instance was called for and found
    hpc,              \* where the task calling handle_request is
    hinst,            \* the instance of the current or last handle_request call
    op_error,         \* the exception the last pause, resume, terminate or collaboration update ended with
    env_state,        \* EnvironmentState.state: the keys it holds
    observers,        \* EnvironmentState.observers
    lock,             \* the task that holds EnvironmentState.lock, or "free"
    upc,              \* where each task calling EnvironmentState.update is
    uidx,             \* per task, the index of the next observer _notify_observers awaits
    called,           \* per task, the observers awaited for its current update, in order
    observing,        \* per task, the observers that were registered when it published
    memories,         \* the rows of the memories table, in insertion order
    memory_cache,     \* MemoryManager.memory_cache: the ids it holds
    cache_size_limit, \* MemoryManager.cache_size_limit
    query,            \* the arguments of the last query_memories call
    query_result,     \* what the last query_memories call returned
    action_states,    \* UnityStateSync.action_states: per instance, the state Unity reported
    pending_syncs,    \* UnityStateSync.pending_syncs: per instance, whose Event it holds
    event_set,        \* per waiting task, whether the Event it created is set
    wpc,              \* where each task calling wait_for_unity_state is
    winst,            \* the instance each such task waits for
    wresult,          \* what each task's last wait_for_unity_state returned
    seen              \* per task, whether Unity reported its instance's state during its wait

vars == <<connection, is_connected, autonomous_mode, message_queue, action_queue,
          reachable, hostq, inbox, waiter, stale, pc, cmd, result, gated, held,
          attempts, active, started, connect_result, approval, subDown, sent, send_failed,
          nextId, events, msg, wire, decoded, validation, vpc,
          states, state_change_callbacks, instances, architect_relationships, creating,
          cpc, cidx, notified, listening, callback_failed,
          collaborators, focus, stored, current_task, terminated, hpc, hinst, op_error,
          env_state, observers, lock, upc, uidx, called, observing,
          memories, memory_cache, cache_size_limit, query, query_result,
          action_states, pending_syncs, event_set, wpc, winst, wresult, seen>>

\* The state of the codec and the validator.
valvars == <<msg, wire, decoded, validation, vpc>>

\* The state of the channel, its tasks, the host and the endpoint.
chanvars == <<connection, is_connected, autonomous_mode, message_queue, action_queue,
              reachable, hostq, inbox, waiter, stale, pc, cmd, result, gated, held,
              attempts, active, started, connect_result, approval, subDown, sent,
              send_failed, nextId, events>>

\* The state of the instance manager and the agent state manager.
agentvars == <<states, state_change_callbacks, instances, architect_relationships,
               creating, cpc, cidx, notified, listening, callback_failed,
               collaborators, focus, stored, current_task, terminated, hpc, hinst,
               op_error>>

\* What create_instance and the listeners leave alone in the instance manager.
instvars == <<collaborators, focus, stored, current_task, terminated, hpc, hinst,
              op_error>>

\* The state of an EnvironmentState and of the tasks that update it.
envvars == <<env_state, observers, lock, upc, uidx, called, observing>>

\* The state of a MemoryManager and its table.
memvars == <<memories, memory_cache, cache_size_limit, query, query_result>>

\* The state of a UnityStateSync and of the tasks that wait on it.
syncvars == <<action_states, pending_syncs, event_set, wpc, winst, wresult, seen>>

\* What the actions of each part leave alone.
notchan == <<valvars, agentvars, envvars, memvars, syncvars>>
notval == <<chanvars, agentvars, envvars, memvars, syncvars>>
notagent == <<chanvars, valvars, envvars, memvars, syncvars>>
notenv == <<chanvars, valvars, agentvars, memvars, syncvars>>
notmem == <<chanvars, valvars, agentvars, envvars, syncvars>>
notsync == <<chanvars, valvars, agentvars, envvars, memvars>>

Ids == 1..(MaxCmds + 1)

ChannelInit ==
    /\ connection = "None"
    /\ is_connected = FALSE
    /\ autonomous_mode \in BOOLEAN
    /\ message_queue = <<>>
    /\ action_queue = <<>>
    /\ reachable \in BOOLEAN
    /\ hostq = <<>>
    /\ inbox = <<>>
    /\ waiter = "none"
    /\ stale = {}
    /\ pc = [p \in Procs |-> IF p \in {"manual", "sync", "user"} THEN "idle" ELSE "off"]
    /\ cmd = [c \in Callers |-> NoCmd]
    /\ result = [c \in Callers |-> NoResult]
    /\ gated = [c \in Callers |-> FALSE]
    /\ held = NoCmd
    /\ attempts = [i \in Ids |-> 0]
    /\ active = FALSE
    /\ started = FALSE
    /\ connect_result = "none"
    /\ approval = {}
    /\ subDown = {}
    /\ sent = <<>>
    /\ send_failed = FALSE
    /\ nextId = 1
    /\ events = 0

MaxInstances == 2
InstanceIds == 1..MaxInstances

\* collaboration_focus dicts: the empty one, one that names an area only, and
\* two that name area, task type and location.
NoFocus == [area |-> "None", task_type |-> "None", location |-> "None"]
Focuses == {NoFocus,
            [area |-> "harbour", task_type |-> "None", location |-> "None"],
            [area |-> "harbour", task_type |-> "layout", location |-> "north"],
            [area |-> "park", task_type |-> "planting", location |-> "south"]}

\* InstanceManager.__init__: no instance, no AgentState, no listener.
AgentInit ==
    /\ states = [i \in InstanceIds |-> "absent"]
    /\ state_change_callbacks = <<>>
    /\ instances = [i \in InstanceIds |-> "absent"]
    /\ architect_relationships = {}
    /\ creating = 0
    /\ cpc = "idle"
    /\ cidx = 1
    /\ notified = <<>>
    /\ listening = <<>>
    /\ callback_failed = FALSE
    /\ collaborators = [i \in InstanceIds |-> {}]
    /\ focus = [i \in InstanceIds |-> NoFocus]
    /\ stored = <<>>
    /\ current_task = [i \in InstanceIds |-> "None"]
    /\ terminated = {}
    /\ hpc = "idle"
    /\ hinst = 1
    /\ op_error = "None"

Updaters == {"u1", "u2"}

\* EnvironmentState.__init__: empty state, no observer, a free lock.
EnvInit ==
    /\ env_state = {}
    /\ observers = <<>>
    /\ lock = "free"
    /\ upc = [t \in Updaters |-> "idle"]
    /\ uidx = [t \in Updaters |-> 1]
    /\ called = [t \in Updaters |-> <<>>]
    /\ observing = [t \in Updaters |-> <<>>]

NoQuery == [tags |-> {}, importance_threshold |-> 0, limit |-> 0, n |-> 0]

\* MemoryManager.__init__ on a new database: an empty table and an empty cache.
MemInit ==
    /\ memories = <<>>
    /\ memory_cache = {}
    /\ cache_size_limit = 1000
    /\ query = NoQuery
    /\ query_result = <<>>

Waiters == {"w1", "w2"}

\* UnityStateSync.__init__: no reported state, no pending wait.
SyncInit ==
    /\ action_states = [i \in InstanceIds |-> "None"]
    /\ pending_syncs = [i \in InstanceIds |-> "none"]
    /\ event_set = [w \in Waiters |-> FALSE]
    /\ wpc = [w \in Waiters |-> "idle"]
    /\ winst = [w \in Waiters |-> 1]
    /\ wresult = [w \in Waiters |-> "None"]
    /\ seen = [w \in Waiters |-> FALSE]

\* The channel after construction; nothing has been handed to the codec.
Init ==
    /\ ChannelInit
    /\ msg = None
    /\ wire = NoText
    /\ decoded = None
    /\ validation = NoValidation
    /\ vpc = "idle"
    /\ AgentInit
    /\ EnvInit
    /\ MemInit
    /\ SyncInit

InCall(c) == pc[c] \in {"sc_connect", "sc_send", "sc_recv"}

\* Where a caller continues when its send_command returns.
AfterCall(c) ==
    CASE c = "auto" -> "ap_sleep"
      [] c = "agent" -> "ag_result"
      [] OTHER -> "idle"

\* _requires_user_approval: action.get('type') in CRITICAL_ACTIONS.
_requires_user_approval(action) ==
    action.field = "type" /\ action.kind \in CRITICAL_ACTIONS

----------------------------------------------------------------------------
(* The transport and the endpoint *)

\* The connection object and what hangs on it.
Now == [connection |-> connection, hostq |-> hostq, inbox |-> inbox,
        waiter |-> waiter, stale |-> stale]

\* self.connection = await websockets.connect(...), lines 66-71: a new transport
\* replaces the old one (its unread messages, the host's unanswered commands and
\* a task suspended in its recv() stay with the old transport). On failure the
\* exception is logged and swallowed, lines 72-73.
Connected ==
    IF reachable
    THEN [connection |-> "open", hostq |-> <<>>, inbox |-> <<>>, waiter |-> "none",
          stale |-> stale \cup ({waiter} \ {"none"})]
    ELSE Now

\* connect, lines 65-73. Neither outcome touches is_connected.
connect ==
    /\ connection' = Connected.connection
    /\ hostq' = Connected.hostq
    /\ inbox' = Connected.inbox
    /\ waiter' = Connected.waiter
    /\ stale' = Connected.stale

\* A message of the host that is not JSON text.
NotJson == [re |-> -1]

\* return json.loads(response), line 122: the decoded response, or, when
\* json.loads raises, the failure result of the except clause.
Decode(response) ==
    IF response = NotJson THEN Failure ELSE [status |-> "ok", re |-> response.re]

\* send_command returns r to caller c.
Return(c, r) ==
    /\ result' = [result EXCEPT ![c] = r]
    /\ pc' = [pc EXCEPT ![c] = AfterCall(c)]

\* The keys of the command dict each producer builds: _execute_unity_action,
\* send_state_update, _format_action_command; a queued action or message carries
\* the field that names what to do, and its parameters.
CommandKeys(command) ==
    CASE command.origin = "manual" -> {"action", "parameters", "tool_id"}
      [] command.origin = "sync" -> {"type", "instance_id", "state"}
      [] command.origin = "agent" ->
             {"action_type", "parameters", "agent_id", "required_permissions"}
      [] OTHER -> {command.field, "parameters"}

\* error_handler.MessageValidator.validate_command: all of 'action' and
\* 'parameters' are in the command. Only the first definition of send_command
\* calls it; send_command as bound, lines 111-125, does not.
validate_command(command) == {"action", "parameters"} \subseteq CommandKeys(command)

----------------------------------------------------------------------------
(* send_command, lines 111-125 *)

\* send_command whose except clause does not catch the error of a send on a
\* missing or closed transport: the error leaves the call.
SendRecv_uncaught(t, c, command, gate) ==
    /\ connection' = t.connection
    /\ stale' = t.stale
    /\ \/ /\ t.connection # "open"
          /\ Return(c, [status |-> "raised", re |-> 0])
          /\ send_failed' = TRUE
          /\ hostq' = t.hostq
          /\ inbox' = t.inbox
          /\ waiter' = t.waiter
          /\ UNCHANGED sent
       \/ /\ t.connection = "open"
          /\ sent' = Append(sent, [cmd |-> command, by |-> c, connected |-> is_connected,
                                   gate |-> gate])
          /\ hostq' = Append(t.hostq, command.id)
          /\ UNCHANGED send_failed
          /\ \/ /\ t.waiter # "none"
                /\ Return(c, Failure)
                /\ inbox' = t.inbox
                /\ waiter' = t.waiter
             \/ /\ t.waiter = "none"
                /\ t.inbox # <<>>
                /\ Return(c, Decode(Head(t.inbox)))
                /\ inbox' = Tail(t.inbox)
                /\ waiter' = "none"
             \/ /\ t.waiter = "none"
                /\ t.inbox = <<>>
                /\ result' = [result EXCEPT ![c] = NoResult]
                /\ pc' = [pc EXCEPT ![c] = "sc_recv"]
                /\ inbox' = t.inbox
                /\ waiter' = c

\* Lines 115-125 on the transport t, from the send to the suspension in recv() or
\* the return. send on None (AttributeError) or on a closed transport
\* (ConnectionClosed) is caught and gives the failure result. send hands the
\* frame to the transport before it can suspend, so the host has the command.
\* recv() while another task is suspended in recv() raises (websockets allows
\* one reader) and is caught the same way; with a message already buffered
\* recv() returns it without suspending; otherwise the task suspends.
SendRecv(t, c, command, gate) ==
    /\ connection' = t.connection
    /\ stale' = t.stale
    /\ \/ /\ t.connection # "open"
          /\ Return(c, Failure)
          /\ send_failed' = TRUE
          /\ hostq' = t.hostq
          /\ inbox' = t.inbox
          /\ waiter' = t.waiter
          /\ UNCHANGED sent
       \/ /\ t.connection = "open"
          /\ sent' = Append(sent, [cmd |-> command, by |-> c, connected |-> is_connected,
                                   gate |-> gate])
          /\ hostq' = Append(t.hostq, command.id)
          /\ UNCHANGED send_failed
          /\ \/ /\ t.waiter # "none"
                /\ Return(c, Failure)
                /\ inbox' = t.inbox
                /\ waiter' = t.waiter
             \/ /\ t.waiter = "none"
                /\ t.inbox # <<>>
                /\ Return(c, Decode(Head(t.inbox)))
                /\ inbox' = Tail(t.inbox)
                /\ waiter' = "none"
             \/ /\ t.waiter = "none"
                /\ t.inbox = <<>>
                /\ result' = [result EXCEPT ![c] = NoResult]
                /\ pc' = [pc EXCEPT ![c] = "sc_recv"]
                /\ inbox' = t.inbox
                /\ waiter' = c

\* The call: if not self.connection: await self.connect(); otherwise straight to
\* the send.
send_command(c, command, gate) ==
    /\ cmd' = [cmd EXCEPT ![c] = command]
    /\ gated' = [gated EXCEPT ![c] = gate]
    /\ subDown' = IF connection # "open" THEN subDown \cup {command.id} ELSE subDown
    /\ IF connection = "None"
       THEN /\ pc' = [pc EXCEPT ![c] = "sc_connect"]
            /\ result' = [result EXCEPT ![c] = NoResult]
            /\ UNCHANGED <<connection, hostq, inbox, waiter, stale, sent, send_failed>>
       ELSE SendRecv(Now, c, command, gate)

\* await self.connect() inside send_command completes, and the send follows.
send_command_connected(c) ==
    /\ pc[c] = "sc_connect"
    /\ SendRecv(Connected, c, cmd[c], gated[c])
    /\ UNCHANGED <<is_connected, autonomous_mode, message_queue, action_queue, reachable,
                   cmd, gated, held, attempts, active, started, connect_result,
                   approval, subDown, nextId, events>>
    /\ UNCHANGED notchan

\* The suspended recv() completes: with the next message of the transport, or
\* with ConnectionClosed when the transport is gone. There is no timeout.
send_command_recv(c) ==
    /\ pc[c] = "sc_recv"
    /\ waiter = c
    /\ \/ /\ connection = "open"
          /\ inbox # <<>>
          /\ Return(c, Decode(Head(inbox)))
          /\ inbox' = Tail(inbox)
       \/ /\ connection = "closed"
          /\ Return(c, Failure)
          /\ UNCHANGED inbox
    /\ waiter' = "none"
    /\ UNCHANGED <<connection, is_connected, autonomous_mode, message_queue, action_queue,
                   reachable, hostq, stale, cmd, gated, held, attempts, active, started,
                   connect_result, approval, subDown, sent, nextId, events, send_failed>>
    /\ UNCHANGED notchan

\* A recv() suspended on a transport that connect() has since replaced: the old
\* transport is unreferenced, and when it is torn down the recv() raises.
send_command_recv_stale(c) ==
    /\ c \in stale
    /\ pc[c] = "sc_recv"
    /\ stale' = stale \ {c}
    /\ Return(c, Failure)
    /\ UNCHANGED <<connection, is_connected, autonomous_mode, message_queue, action_queue,
                   reachable, hostq, inbox, waiter, cmd, gated, held, attempts, active,
                   started, connect_result, approval, subDown, sent, nextId, events, send_failed>>
    /\ UNCHANGED notchan

\* The caller's task is cancelled while send_command is suspended in recv():
\* CancelledError is no Exception, so line 123 does not catch it, and the call
\* ends without a result. What was sent stays sent, and what the transport
\* receives later stays buffered on it.
send_command_cancel(c) ==
    /\ events < MaxEvents
    /\ events' = events + 1
    /\ pc[c] = "sc_recv"
    /\ waiter = c
    /\ waiter' = "none"
    /\ Return(c, [status |-> "cancelled", re |-> 0])
    /\ UNCHANGED <<connection, is_connected, autonomous_mode, message_queue, action_queue,
                   reachable, hostq, inbox, stale, cmd, gated, held, attempts, active,
                   started, connect_result, approval, subDown, sent, nextId, send_failed>>
    /\ UNCHANGED notchan

\* ArchitectToolManager._execute_unity_action: {"action": tool.unity_action_type, ...}.
_execute_unity_action ==
    /\ pc["manual"] = "idle"
    /\ nextId <= MaxCmds
    /\ nextId' = nextId + 1
    /\ send_command("manual", [id |-> nextId, field |-> "action", kind |-> "place_model",
                               origin |-> "manual"], FALSE)
    /\ UNCHANGED <<is_connected, autonomous_mode, message_queue, action_queue, reachable, held,
                   attempts, active, started, connect_result, approval, events>>
    /\ UNCHANGED notchan

\* UnityStateSync.send_state_update: {"type": "state_update", ...}.
send_state_update ==
    /\ pc["sync"] = "idle"
    /\ nextId <= MaxCmds
    /\ nextId' = nextId + 1
    /\ send_command("sync", [id |-> nextId, field |-> "type", kind |-> "state_update",
                             origin |-> "sync"], FALSE)
    /\ UNCHANGED <<is_connected, autonomous_mode, message_queue, action_queue, reachable, held,
                   attempts, active, started, connect_result, approval, events>>
    /\ UNCHANGED notchan

----------------------------------------------------------------------------
(* The channel's owner: start, connect, disconnect *)

\* start, lines 80-84, up to its await self.connect().
start ==
    /\ pc["user"] = "idle"
    /\ ~started
    /\ started' = TRUE
    /\ pc' = [pc EXCEPT !["user"] = "st_connect"]
    /\ UNCHANGED <<connection, is_connected, autonomous_mode, message_queue, action_queue,
                   reachable, hostq, inbox, waiter, stale, cmd, result, gated, held,
                   attempts, active, connect_result, approval, subDown, sent, nextId,
                   events, send_failed>>
    /\ UNCHANGED notchan

\* start after connect(): if self.autonomous_mode, create the task of
\* _autonomous_action_processor. Neither _connection_monitor nor
\* _process_message_queue is created here.
start_connected ==
    /\ pc["user"] = "st_connect"
    /\ connect
    /\ pc' = [pc EXCEPT !["user"] = "idle",
                        !["auto"] = IF autonomous_mode THEN "ap_get" ELSE @]
    /\ UNCHANGED <<is_connected, autonomous_mode, message_queue, action_queue, reachable,
                   cmd, result, gated, held, attempts, active, started, connect_result,
                   approval, subDown, sent, nextId, events, send_failed>>
    /\ UNCHANGED notchan

\* A direct call of connect() (the tests, start_environment, initialize_connection).
connect_call ==
    /\ events < MaxEvents
    /\ events' = events + 1
    /\ pc["user"] = "idle"
    /\ connect_result' = "pending"
    /\ pc' = [pc EXCEPT !["user"] = "cn_connect"]
    /\ UNCHANGED <<connection, is_connected, autonomous_mode, message_queue, action_queue,
                   reachable, hostq, inbox, waiter, stale, cmd, result, gated, held,
                   attempts, active, started, approval, subDown, sent, nextId, send_failed>>
    /\ UNCHANGED notchan

\* connect() returns to its caller: None, whether the transport was established
\* or the exception was logged.
connect_return ==
    /\ pc["user"] = "cn_connect"
    /\ connect
    /\ connect_result' = "None"
    /\ pc' = [pc EXCEPT !["user"] = "idle"]
    /\ UNCHANGED <<is_connected, autonomous_mode, message_queue, action_queue, reachable,
                   cmd, result, gated, held, attempts, active, started, approval, subDown,
                   sent, nextId, events, send_failed>>
    /\ UNCHANGED notchan

\* disconnect, lines 146-149: if self.connection: await self.connection.close().
disconnect ==
    /\ events < MaxEvents
    /\ events' = events + 1
    /\ pc["user"] = "idle"
    /\ connection = "open"
    /\ connection' = "closed"
    /\ hostq' = <<>>
    /\ inbox' = <<>>
    /\ UNCHANGED <<is_connected, autonomous_mode, message_queue, action_queue, reachable,
                   waiter, stale, pc, cmd, result, gated, held, attempts, active, started,
                   connect_result, approval, subDown, sent, nextId, send_failed>>
    /\ UNCHANGED notchan

\* The body of the first definition of start, lines 75-78, which creates the
\* monitor and the drain tasks. start() itself is the later definition, so these
\* tasks run only when they are created by this body's two statements.
start_monitoring ==
    /\ pc["monitor"] = "off"
    /\ pc["drain"] = "off"
    /\ pc' = [pc EXCEPT !["monitor"] = "mon_tick", !["drain"] = "dr_get"]
    /\ UNCHANGED <<connection, is_connected, autonomous_mode, message_queue, action_queue,
                   reachable, hostq, inbox, waiter, stale, cmd, result, gated, held,
                   attempts, active, started, connect_result, approval, subDown, sent,
                   nextId, events, send_failed>>
    /\ UNCHANGED notchan

----------------------------------------------------------------------------
(* The remote host and the endpoint *)

\* The host answers the oldest command it has not answered.
HostReply ==
    /\ connection = "open"
    /\ hostq # <<>>
    /\ inbox' = Append(inbox, [re |-> Head(hostq)])
    /\ hostq' = Tail(hostq)
    /\ UNCHANGED <<connection, is_connected, autonomous_mode, message_queue, action_queue,
                   reachable, waiter, stale, pc, cmd, result, gated, held, attempts, active,
                   started, connect_result, approval, subDown, sent, nextId, events, send_failed>>
    /\ UNCHANGED notchan

\* The host answers the oldest command it has not answered, and the response
\* reaches the transport twice (the host repeats it).
HostReplyDuplicate ==
    /\ connection = "open"
    /\ hostq # <<>>
    /\ inbox' = inbox \o <<[re |-> Head(hostq)], [re |-> Head(hostq)]>>
    /\ hostq' = Tail(hostq)
    /\ UNCHANGED <<connection, is_connected, autonomous_mode, message_queue, action_queue,
                   reachable, waiter, stale, pc, cmd, result, gated, held, attempts, active,
                   started, connect_result, approval, subDown, sent, nextId, events, send_failed>>
    /\ UNCHANGED notchan

\* The host sends text that is not JSON.
HostGarbage ==
    /\ events < MaxEvents
    /\ events' = events + 1
    /\ connection = "open"
    /\ inbox' = Append(inbox, NotJson)
    /\ UNCHANGED <<connection, is_connected, autonomous_mode, message_queue, action_queue,
                   reachable, hostq, waiter, stale, pc, cmd, result, gated, held, attempts,
                   active, started, connect_result, approval, subDown, sent, nextId, send_failed>>
    /\ UNCHANGED notchan

\* The host pushes a state update that answers no command (re = 0). Nothing but
\* a send_command's recv() reads the transport: receive_state, which
\* EnvironmentManager._monitor_environment calls, is not defined by the class.
HostStateUpdate ==
    /\ events < MaxEvents
    /\ events' = events + 1
    /\ connection = "open"
    /\ inbox' = Append(inbox, [re |-> 0])
    /\ UNCHANGED <<connection, is_connected, autonomous_mode, message_queue, action_queue,
                   reachable, hostq, waiter, stale, pc, cmd, result, gated, held, attempts,
                   active, started, connect_result, approval, subDown, sent, nextId, send_failed>>
    /\ UNCHANGED notchan

\* The transport drops: the connection object stays in self.connection.
Drop ==
    /\ events < MaxEvents
    /\ events' = events + 1
    /\ connection = "open"
    /\ connection' = "closed"
    /\ hostq' = <<>>
    /\ inbox' = <<>>
    /\ UNCHANGED <<is_connected, autonomous_mode, message_queue, action_queue, reachable,
                   waiter, stale, pc, cmd, result, gated, held, attempts, active, started,
                   connect_result, approval, subDown, sent, nextId, send_failed>>
    /\ UNCHANGED notchan

\* The endpoint starts to accept connections.
EndpointUp ==
    /\ events < MaxEvents
    /\ events' = events + 1
    /\ ~reachable
    /\ reachable' = TRUE
    /\ UNCHANGED <<connection, is_connected, autonomous_mode, message_queue, action_queue,
                   hostq, inbox, waiter, stale, pc, cmd, result, gated, held, attempts,
                   active, started, connect_result, approval, subDown, sent, nextId, send_failed>>
    /\ UNCHANGED notchan

\* The endpoint stops accepting connections.
EndpointDown ==
    /\ events < MaxEvents
    /\ events' = events + 1
    /\ reachable
    /\ reachable' = FALSE
    /\ UNCHANGED <<connection, is_connected, autonomous_mode, message_queue, action_queue,
                   hostq, inbox, waiter, stale, pc, cmd, result, gated, held, attempts,
                   active, started, connect_result, approval, subDown, sent, nextId, send_failed>>
    /\ UNCHANGED notchan

----------------------------------------------------------------------------
(* _connection_monitor, lines 86-97 *)

\* A tick with no connection object: await self.connect(). With a connection
\* object present, open or not, the tick does nothing and sleeps.
_connection_monitor_tick ==
    /\ pc["monitor"] = "mon_tick"
    /\ connection = "None"
    /\ pc' = [pc EXCEPT !["monitor"] = "mon_connect"]
    /\ UNCHANGED <<connection, is_connected, autonomous_mode, message_queue, action_queue,
                   reachable, hostq, inbox, waiter, stale, cmd, result, gated, held,
                   attempts, active, started, connect_result, approval, subDown, sent,
                   nextId, events, send_failed>>
    /\ UNCHANGED notchan

\* connect() returned: if self.connection: self.is_connected.set(); then sleep.
_connection_monitor_connected ==
    /\ pc["monitor"] = "mon_connect"
    /\ connect
    /\ is_connected' = (is_connected \/ connection' # "None")
    /\ pc' = [pc EXCEPT !["monitor"] = "mon_tick"]
    /\ UNCHANGED <<autonomous_mode, message_queue, action_queue, reachable, cmd, result,
                   gated, held, attempts, active, started, connect_result, approval,
                   subDown, sent, nextId, events, send_failed>>
    /\ UNCHANGED notchan

----------------------------------------------------------------------------
(* _process_message_queue, lines 99-109 *)

\* A producer puts a message on message_queue.
message_queue_put ==
    /\ nextId <= MaxCmds
    /\ nextId' = nextId + 1
    /\ message_queue' = Append(message_queue,
                               [id |-> nextId, field |-> "action", kind |-> "place_model",
                                origin |-> "queued"])
    /\ UNCHANGED <<connection, is_connected, autonomous_mode, action_queue, reachable,
                   hostq, inbox, waiter, stale, pc, cmd, result, gated, held, attempts,
                   active, started, connect_result, approval, subDown, sent, events, send_failed>>
    /\ UNCHANGED notchan

\* message = await self.message_queue.get()
_process_message_queue_get ==
    /\ pc["drain"] = "dr_get"
    /\ message_queue # <<>>
    /\ held' = Head(message_queue)
    /\ message_queue' = Tail(message_queue)
    /\ pc' = [pc EXCEPT !["drain"] = "dr_wait"]
    /\ UNCHANGED <<connection, is_connected, autonomous_mode, action_queue, reachable,
                   hostq, inbox, waiter, stale, cmd, result, gated, attempts, active,
                   started, connect_result, approval, subDown, sent, nextId, events, send_failed>>
    /\ UNCHANGED notchan

\* _send_message(message): the class does not define it; it transmits the message
\* on the connection and raises when the transport is not open.
_send_message(message) ==
    /\ connection = "open"
    /\ sent' = Append(sent, [cmd |-> message, by |-> "drain", connected |-> is_connected,
                             gate |-> FALSE])
    /\ hostq' = Append(hostq, message.id)

\* _process_message_queue without the try around _send_message: the error of a
\* failed transmission ends the task.
_process_message_queue_send_uncaught ==
    /\ pc["drain"] = "dr_wait"
    /\ is_connected
    /\ attempts[held.id] < MaxAttempts
    /\ attempts' = [attempts EXCEPT ![held.id] = @ + 1]
    /\ \/ /\ _send_message(held)
          /\ UNCHANGED <<message_queue, send_failed>>
       \/ /\ connection # "open"
          /\ send_failed' = TRUE
          /\ UNCHANGED <<sent, hostq, message_queue>>
    /\ held' = NoCmd
    /\ pc' = [pc EXCEPT !["drain"] = IF connection = "open" THEN "dr_get" ELSE "off"]
    /\ UNCHANGED <<connection, is_connected, autonomous_mode, action_queue, reachable,
                   inbox, waiter, stale, cmd, result, gated, active, started,
                   connect_result, approval, subDown, nextId, events>>
    /\ UNCHANGED notchan

\* _process_message_queue with the put after the try instead of in the except
\* branch: the message goes back on the queue whether or not it was transmitted.
_process_message_queue_send_requeue_always ==
    /\ pc["drain"] = "dr_wait"
    /\ is_connected
    /\ attempts[held.id] < MaxAttempts
    /\ attempts' = [attempts EXCEPT ![held.id] = @ + 1]
    /\ \/ /\ _send_message(held)
          /\ UNCHANGED send_failed
       \/ /\ connection # "open"
          /\ send_failed' = TRUE
          /\ UNCHANGED <<sent, hostq>>
    /\ message_queue' = Append(message_queue, held)
    /\ held' = NoCmd
    /\ pc' = [pc EXCEPT !["drain"] = "dr_get"]
    /\ UNCHANGED <<connection, is_connected, autonomous_mode, action_queue, reachable,
                   inbox, waiter, stale, cmd, result, gated, active, started,
                   connect_result, approval, subDown, nextId, events>>
    /\ UNCHANGED notchan

\* await self.is_connected.wait(); then _send_message, and on an exception the
\* message is put back at the tail of the queue: no attempt count, no cap.
_process_message_queue_send ==
    /\ pc["drain"] = "dr_wait"
    /\ is_connected
    /\ attempts[held.id] < MaxAttempts
    /\ attempts' = [attempts EXCEPT ![held.id] = @ + 1]
    /\ \/ /\ _send_message(held)
          /\ UNCHANGED <<message_queue, send_failed>>
       \/ /\ connection # "open"
          /\ message_queue' = Append(message_queue, held)
          /\ send_failed' = TRUE
          /\ UNCHANGED <<sent, hostq>>
    /\ held' = NoCmd
    /\ pc' = [pc EXCEPT !["drain"] = "dr_get"]
    /\ UNCHANGED <<connection, is_connected, autonomous_mode, action_queue, reachable,
                   inbox, waiter, stale, cmd, result, gated, active, started,
                   connect_result, approval, subDown, nextId, events>>
    /\ UNCHANGED notchan

----------------------------------------------------------------------------
(* _autonomous_action_processor, lines 127-139 *)

\* An unattended decision loop puts an action on action_queue.
action_queue_put(field, kind) ==
    /\ nextId <= MaxCmds
    /\ nextId' = nextId + 1
    /\ action_queue' = Append(action_queue,
                              [id |-> nextId, field |-> field, kind |-> kind,
                               origin |-> "auto"])
    /\ UNCHANGED <<connection, is_connected, autonomous_mode, message_queue, reachable,
                   hostq, inbox, waiter, stale, pc, cmd, result, gated, held, attempts,
                   active, started, connect_result, approval, subDown, sent, events, send_failed>>
    /\ UNCHANGED notchan

\* action = await self.action_queue.get(); the gate; then send_command(action), or
\* the warning that the action requires user approval.
_autonomous_action_processor ==
    /\ pc["auto"] = "ap_get"
    /\ action_queue # <<>>
    /\ action_queue' = Tail(action_queue)
    /\ \/ /\ ~_requires_user_approval(Head(action_queue))
          /\ send_command("auto", Head(action_queue), TRUE)
          /\ UNCHANGED approval
       \/ /\ _requires_user_approval(Head(action_queue))
          /\ approval' = approval \cup {Head(action_queue).id}
          /\ pc' = [pc EXCEPT !["auto"] = "ap_sleep"]
          /\ UNCHANGED <<cmd, result, gated, subDown, connection, hostq, inbox, waiter,
                         stale, sent, send_failed>>
    /\ UNCHANGED <<is_connected, autonomous_mode, message_queue, reachable, held, attempts,
                   active, started, connect_result, nextId, events>>
    /\ UNCHANGED notchan

\* await asyncio.sleep(0.1)
_autonomous_action_processor_sleep ==
    /\ pc["auto"] = "ap_sleep"
    /\ pc' = [pc EXCEPT !["auto"] = "ap_get"]
    /\ UNCHANGED <<connection, is_connected, autonomous_mode, message_queue, action_queue,
                   reachable, hostq, inbox, waiter, stale, cmd, result, gated, held,
                   attempts, active, started, connect_result, approval, subDown, sent,
                   nextId, events, send_failed>>
    /\ UNCHANGED notchan

----------------------------------------------------------------------------
(* EnvironmentAgent.start_autonomous_mode and EnvironmentManager.execute_action *)

\* start_autonomous_mode: await self.env_manager.start(), which sets active and
\* awaits _monitor_environment() and _process_state_updates().
start_autonomous_mode ==
    /\ pc["agent"] = "off"
    /\ active' = TRUE
    /\ pc' = [pc EXCEPT !["agent"] = "ag_managing"]
    /\ UNCHANGED <<connection, is_connected, autonomous_mode, message_queue, action_queue,
                   reachable, hostq, inbox, waiter, stale, cmd, result, gated, held,
                   attempts, started, connect_result, approval, subDown, sent, nextId,
                   events, send_failed>>
    /\ UNCHANGED notchan

\* As the class stands, start() raises on self._process_state_updates, which
\* EnvironmentManager does not define: the agent logs the error, stops the manager
\* and never enters its decision loop.
start_autonomous_mode_raises ==
    /\ pc["agent"] = "off"
    /\ active' = FALSE
    /\ pc' = [pc EXCEPT !["agent"] = "ag_stopped"]
    /\ UNCHANGED <<connection, is_connected, autonomous_mode, message_queue, action_queue,
                   reachable, hostq, inbox, waiter, stale, cmd, result, gated, held,
                   attempts, started, connect_result, approval, subDown, sent, send_failed,
                   nextId, events>>
    /\ UNCHANGED notchan

\* With a manager that provides _process_state_updates (a subclass), start()
\* returns once EnvironmentManager.stop() has cleared active, and the agent
\* enters its decision loop.
stop ==
    /\ pc["agent"] = "ag_managing"
    /\ active
    /\ active' = FALSE
    /\ pc' = [pc EXCEPT !["agent"] = "ag_plan"]
    /\ UNCHANGED <<connection, is_connected, autonomous_mode, message_queue, action_queue,
                   reachable, hostq, inbox, waiter, stale, cmd, result, gated, held,
                   attempts, started, connect_result, approval, subDown, sent, nextId,
                   events, send_failed>>
    /\ UNCHANGED notchan

\* _format_action_command: {"action_type": action.action_type.value, ...}.
_format_action_command(id, action_type) ==
    [id |-> id, field |-> "action_type", kind |-> action_type, origin |-> "agent"]

\* execute_action, lines 75-89, for a planned action: format the command and
\* send_command it. No gate is consulted.
execute_action(action_type) ==
    /\ pc["agent"] = "ag_plan"
    /\ action_type \in EnvironmentActionType
    /\ nextId <= MaxCmds
    /\ nextId' = nextId + 1
    /\ send_command("agent", _format_action_command(nextId, action_type), FALSE)
    /\ UNCHANGED <<is_connected, autonomous_mode, message_queue, action_queue, reachable, held,
                   attempts, active, started, connect_result, approval, events>>
    /\ UNCHANGED notchan

\* _process_action_response, then the loop's sleep and the next plan.
execute_action_result ==
    /\ pc["agent"] = "ag_result"
    /\ pc' = [pc EXCEPT !["agent"] = "ag_plan"]
    /\ UNCHANGED <<connection, is_connected, autonomous_mode, message_queue, action_queue,
                   reachable, hostq, inbox, waiter, stale, cmd, result, gated, held,
                   attempts, active, started, connect_result, approval, subDown, sent,
                   nextId, events, send_failed>>
    /\ UNCHANGED notchan

----------------------------------------------------------------------------
(* The codec: json.dumps and json.loads as send_command uses them *)

\* json.dumps(command), line 115: a dict becomes an object, a str a string, a
\* list and a tuple alike an array.
json_dumps(m) ==
    [object |-> m.dict, category |-> m.category, type |-> m.type, fields |-> m.fields,
     value |-> CASE m.value = "str" -> "string"
                 [] m.value \in {"list", "tuple"} -> "array"
                 [] OTHER -> "null",
     extra |-> m.extra]

\* json.loads(response), line 122: an object becomes a dict, a string a str, an
\* array a list.
json_loads(text) ==
    [dict |-> text.object, category |-> text.category, type |-> text.type,
     fields |-> text.fields,
     value |-> CASE text.value = "string" -> "str"
                 [] text.value = "array" -> "list"
                 [] OTHER -> "None",
     extra |-> text.extra]

----------------------------------------------------------------------------
(* MessageValidator, middleware/message_validator.py *)

\* "key" in message
Has(m, key) ==
    CASE key = "type" -> m.type # Absent
      [] key = "category" -> m.category # Absent
      [] OTHER -> key \in m.fields

\* _validate_auth: return True.
_validate_auth(api_key) == TRUE

_validate_architect(m) ==
    IF m.type = "request" /\ ~Has(m, "message")
    THEN ValidationResult(FALSE, "Missing message content", None)
    ELSE IF m.type = "request" /\ ~Has(m, "metadata")
    THEN ValidationResult(FALSE, "Missing request metadata", None)
    ELSE IF m.type = "response" /\ ~Has(m, "status")
    THEN ValidationResult(FALSE, "Missing response status", None)
    ELSE IF m.type = "state_update" /\ ~Has(m, "state")
    THEN ValidationResult(FALSE, "Missing state data", None)
    ELSE ValidationResult(TRUE, "None", m)

\* _validate_system returning ValidationResult(True) without validated_data.
_validate_system_no_data(m) ==
    IF ~Has(m, "action")
    THEN ValidationResult(FALSE, "Missing system action", None)
    ELSE IF ~Has(m, "timestamp")
    THEN ValidationResult(FALSE, "Missing timestamp", None)
    ELSE ValidationResult(TRUE, "None", None)

_validate_system(m) ==
    IF ~Has(m, "action")
    THEN ValidationResult(FALSE, "Missing system action", None)
    ELSE IF ~Has(m, "timestamp")
    THEN ValidationResult(FALSE, "Missing timestamp", None)
    ELSE ValidationResult(TRUE, "None", m)

\* _validate_environment without the check of "state_data".
_validate_environment_no_state_data(m) ==
    IF ~Has(m, "state_type")
    THEN ValidationResult(FALSE, "Missing state type", None)
    ELSE ValidationResult(TRUE, "None", m)

_validate_environment(m) ==
    IF ~Has(m, "state_type")
    THEN ValidationResult(FALSE, "Missing state type", None)
    ELSE IF ~Has(m, "state_data")
    THEN ValidationResult(FALSE, "Missing state data", None)
    ELSE ValidationResult(TRUE, "None", m)

_validate_ui(m) ==
    IF ~Has(m, "action")
    THEN ValidationResult(FALSE, "Missing UI action", None)
    ELSE IF ~Has(m, "data")
    THEN ValidationResult(FALSE, "Missing UI data", None)
    ELSE ValidationResult(TRUE, "None", m)

_validate_default(m) == ValidationResult(TRUE, "None", m)

\* An exception leaving a function in place of its result.
Exceptions == {"ValueError", "KeyError", "TypeError"}
Raise(e) == ValidationResult(FALSE, e, None)
Raised(r) == r.error_message \in Exceptions

\* Lines 42-48: MessageCategory(message["category"]) raises ValueError for a
\* value that is no member; getattr finds a _validate_<category> method for
\* each of the four members, so its default, _validate_default, is what it
\* returns for none of them.
validator_method(m) ==
    IF m.category \notin MessageCategory
    THEN Raise("ValueError")
    ELSE CASE m.category = "architect" -> _validate_architect(m)
           [] m.category = "system" -> _validate_system(m)
           [] m.category = "environment" -> _validate_environment(m)
           [] m.category = "ui" -> _validate_ui(m)
           [] OTHER -> _validate_default(m)

\* Lines 26-50, the body of the outer try: the base checks, and the routing
\* with its except ValueError.
validate_message_body(m) ==
    IF ~m.dict
    THEN ValidationResult(FALSE, "Message must be a dictionary", None)
    ELSE IF ~Has(m, "type")
    THEN ValidationResult(FALSE, "Message type not specified", None)
    ELSE IF ~Has(m, "category")
    THEN ValidationResult(FALSE, "Message category not specified", None)
    ELSE IF Has(m, "api_key") /\ ~_validate_auth(m.value)
    THEN ValidationResult(FALSE, "Invalid authentication", None)
    ELSE IF validator_method(m) = Raise("ValueError")
    THEN ValidationResult(FALSE, "Invalid message category", None)
    ELSE validator_method(m)

\* validate_message without its except clauses: the ValueError of
\* MessageCategory(...) leaves the function.
validate_message_uncaught(m) ==
    IF ~m.dict
    THEN ValidationResult(FALSE, "Message must be a dictionary", None)
    ELSE IF ~Has(m, "type")
    THEN ValidationResult(FALSE, "Message type not specified", None)
    ELSE IF ~Has(m, "category")
    THEN ValidationResult(FALSE, "Message category not specified", None)
    ELSE validator_method(m)

\* validate_message without the check of "type": _validate_architect then raises
\* KeyError on message["type"], which line 53 turns into a result; the other
\* validators do not read "type".
validate_message_no_type_check(m) ==
    IF ~m.dict
    THEN ValidationResult(FALSE, "Message must be a dictionary", None)
    ELSE IF ~Has(m, "category")
    THEN ValidationResult(FALSE, "Message category not specified", None)
    ELSE IF m.category \notin MessageCategory
    THEN ValidationResult(FALSE, "Invalid message category", None)
    ELSE CASE m.category = "architect" ->
                  IF Has(m, "type") THEN _validate_architect(m)
                  ELSE ValidationResult(FALSE, "Validation error: 'type'", None)
           [] m.category = "system" -> _validate_system(m)
           [] m.category = "environment" -> _validate_environment(m)
           [] m.category = "ui" -> _validate_ui(m)
           [] OTHER -> _validate_default(m)

\* validate_message, lines 22-53: the body, and the outer except Exception,
\* which turns whatever the body raises into a result.
validate_message(m) ==
    IF Raised(validate_message_body(m))
    THEN ValidationResult(FALSE, "Validation error", None)
    ELSE validate_message_body(m)

\* MessageValidator.validate_message(message) on a message as its producer built it.
validate_built ==
    /\ vpc = "new"
    /\ validation' = validate_message(msg)
    /\ vpc' = IF Raised(validate_message(msg)) THEN "raised" ELSE "validated"
    /\ UNCHANGED <<msg, wire, decoded>>
    /\ UNCHANGED notval

\* message = json.dumps(command)
dumps ==
    /\ vpc = "new"
    /\ wire' = json_dumps(msg)
    /\ vpc' = "encoded"
    /\ UNCHANGED <<msg, decoded, validation>>
    /\ UNCHANGED notval

\* json.loads(response) on the text as the peer received it.
loads ==
    /\ vpc = "encoded"
    /\ decoded' = json_loads(wire)
    /\ vpc' = "decoded"
    /\ UNCHANGED <<msg, wire, validation>>
    /\ UNCHANGED notval

\* MessageValidator.validate_message(message) on a decoded message.
validate_decoded ==
    /\ vpc = "decoded"
    /\ validation' = validate_message(decoded)
    /\ vpc' = IF Raised(validate_message(decoded)) THEN "raised" ELSE "revalidated"
    /\ UNCHANGED <<msg, wire, decoded>>
    /\ UNCHANGED notval

----------------------------------------------------------------------------
(* Specifications *)

\* The tasks' own steps inside send_command.
CallerSteps ==
    \/ \E c \in Callers : send_command_connected(c)
    \/ \E c \in Callers : send_command_recv(c)

\* Concurrent callers of send_command on one channel, the channel's owner, the
\* host and the endpoint.
NextCalls ==
    \/ _execute_unity_action
    \/ send_state_update
    \/ CallerSteps
    \/ \E c \in Callers : send_command_recv_stale(c)
    \/ connect_call
    \/ connect_return
    \/ disconnect
    \/ start_monitoring
    \/ _connection_monitor_tick
    \/ _connection_monitor_connected
    \/ HostReply
    \/ Drop
    \/ EndpointUp
    \/ EndpointDown

\* The unattended decision loops: the autonomous action processor behind
\* start(), and the environment agent.
NextGate ==
    \/ start
    \/ start_connected
    \/ \E f \in ActionFields, k \in ActionKinds : action_queue_put(f, k)
    \/ _autonomous_action_processor
    \/ _autonomous_action_processor_sleep
    \/ start_autonomous_mode
    \/ start_autonomous_mode_raises
    \/ stop
    \/ \E t \in PlannedTypes : execute_action(t)
    \/ execute_action_result
    \/ CallerSteps
    \/ HostReply
    \/ EndpointUp

\* A started channel with the monitor and the drain loop, the message queue,
\* the host and the endpoint; no caller acts after start().
NextQueue ==
    \/ start
    \/ start_connected
    \/ start_monitoring
    \/ _connection_monitor_tick
    \/ _connection_monitor_connected
    \/ message_queue_put
    \/ _process_message_queue_get
    \/ _process_message_queue_send
    \/ HostReply
    \/ Drop
    \/ EndpointUp
    \/ EndpointDown

\* Callers of send_command on a channel whose monitor runs and whose transport
\* may drop; nobody calls connect() or disconnect().
NextFault ==
    \/ _execute_unity_action
    \/ send_state_update
    \/ CallerSteps
    \/ \E c \in Callers : send_command_recv_stale(c)
    \/ start_monitoring
    \/ _connection_monitor_tick
    \/ _connection_monitor_connected
    \/ HostReply
    \/ Drop
    \/ EndpointUp
    \/ EndpointDown

\* One message, from its producer through the validator, or through the codec
\* and then the validator.
NextValidate ==
    \/ validate_built
    \/ dumps
    \/ loads
    \/ validate_decoded

\* Any message of the explored shapes is handed over; the channel is idle.
InitValidate ==
    /\ ChannelInit
    /\ ~autonomous_mode
    /\ ~reachable
    /\ msg \in Messages
    /\ wire = NoText
    /\ decoded = None
    /\ validation = NoValidation
    /\ vpc = "new"
    /\ AgentInit
    /\ EnvInit
    /\ MemInit
    /\ SyncInit

\* Concurrent callers of send_command and a host that also repeats responses
\* and pushes state updates.
NextCorr ==
    \/ _execute_unity_action
    \/ send_state_update
    \/ CallerSteps
    \/ \E c \in Callers : send_command_recv_stale(c)
    \/ HostReply
    \/ HostReplyDuplicate
    \/ HostStateUpdate

\* The three loops of a started channel (monitor, drain, autonomous processor)
\* with their producers, an owner that calls connect(), a transport that
\* drops, and a host that does not answer.
NextLoops ==
    \/ start
    \/ start_connected
    \/ start_monitoring
    \/ connect_call
    \/ connect_return
    \/ _connection_monitor_tick
    \/ _connection_monitor_connected
    \/ message_queue_put
    \/ _process_message_queue_get
    \/ _process_message_queue_send
    \/ \E k \in ActionKinds : action_queue_put("type", k)
    \/ _autonomous_action_processor
    \/ _autonomous_action_processor_sleep
    \/ CallerSteps
    \/ Drop

\* Callers of send_command whose wait may be cancelled.
NextCancel ==
    \/ _execute_unity_action
    \/ send_state_update
    \/ CallerSteps
    \/ \E c \in {"manual", "sync"} : send_command_cancel(c)
    \/ \E c \in Callers : send_command_recv_stale(c)
    \/ HostReply

\* Callers of send_command with every failure of connecting, sending,
\* receiving and decoding: an endpoint that is down, a transport that drops, a
\* second reader, a host that sends text that is not JSON.
NextFail ==
    \/ _execute_unity_action
    \/ send_state_update
    \/ CallerSteps
    \/ \E c \in Callers : send_command_recv_stale(c)
    \/ HostReply
    \/ HostGarbage
    \/ Drop
    \/ EndpointUp
    \/ EndpointDown

\* ---- InstanceManager and AgentStateManager ----

\* The callables handed to add_state_listener; the one in Faulty raises when awaited.
Listeners == {"ui", "faulty", "audit"}
Faulty == {"faulty"}

Elements(seq) == {seq[i] : i \in DOMAIN seq}
IsPrefix(p, seq) == Len(p) <= Len(seq) /\ SubSeq(seq, 1, Len(p)) = p

\* add_state_listener(callback): the callback goes to the end of the list.
add_state_listener(callback) ==
    /\ callback \notin Elements(state_change_callbacks)
    /\ state_change_callbacks' = Append(state_change_callbacks, callback)
    /\ UNCHANGED <<states, instances, architect_relationships, creating, cpc, cidx,
                   notified, listening, callback_failed>>
    /\ UNCHANGED instvars
    /\ UNCHANGED notagent

\* create_instance up to its first suspension: a new id, the architect, the
\* goals, the instance and the AgentState are built, register_agent stores
\* the AgentState and starts notifying the listeners.
create_instance ==
    /\ cpc \in {"idle", "returned", "raised"}
    /\ creating < MaxInstances
    /\ creating' = creating + 1
    /\ states' = [states EXCEPT ![creating + 1] = "active"]
    /\ cpc' = "notify"
    /\ cidx' = 1
    /\ notified' = <<>>
    /\ listening' = state_change_callbacks
    /\ UNCHANGED <<state_change_callbacks, instances, architect_relationships,
                   callback_failed>>
    /\ UNCHANGED instvars
    /\ UNCHANGED notagent

\* One turn of the loop of _notify_state_change: the next callback is awaited;
\* if it raises, the error is logged and the loop goes on.
_notify_state_change ==
    /\ cpc = "notify"
    /\ cidx <= Len(state_change_callbacks)
    /\ notified' = Append(notified, state_change_callbacks[cidx])
    /\ callback_failed' = (callback_failed \/ state_change_callbacks[cidx] \in Faulty)
    /\ cidx' = cidx + 1
    /\ UNCHANGED <<states, state_change_callbacks, instances, architect_relationships,
                   creating, cpc, listening>>
    /\ UNCHANGED instvars
    /\ UNCHANGED notagent

\* The rest of create_instance, after register_agent returned: the id gets an
\* entry in architect_relationships, then _update_collaborations reads
\* self.instances[instance_id]. The id is stored in instances only after that
\* call, so the read raises KeyError, which create_instance logs and re-raises.
create_instance_finish ==
    /\ cpc = "notify"
    /\ cidx > Len(state_change_callbacks)
    /\ architect_relationships' = architect_relationships \cup {creating}
    /\ IF instances[creating] = "absent"
       THEN /\ cpc' = "raised"
            /\ UNCHANGED instances
       ELSE /\ instances' = [instances EXCEPT ![creating] = "active"]
            /\ cpc' = "returned"
    /\ UNCHANGED <<states, state_change_callbacks, creating, cidx, notified, listening,
                   callback_failed>>
    /\ UNCHANGED instvars
    /\ UNCHANGED notagent

\* Listeners are added and instances are created, in any interleaving.
NextAgents ==
    \/ \E callback \in Listeners : add_state_listener(callback)
    \/ create_instance
    \/ _notify_state_change
    \/ create_instance_finish

\* ---- InstanceManager: stored instances ----

\* self.instances[instance_id] = instance (line 122), done by the owner for
\* an id whose create_instance call raised: create_instance never gets there,
\* and instances is a public dict. The instance has the default status.
instances_store(instance_id, collaboration_focus) ==
    /\ instance_id <= creating
    /\ ~(cpc = "notify" /\ creating = instance_id)
    /\ instances[instance_id] = "absent"
    /\ instances' = [instances EXCEPT ![instance_id] = "active"]
    /\ stored' = Append(stored, instance_id)
    /\ focus' = [focus EXCEPT ![instance_id] = collaboration_focus]
    /\ UNCHANGED <<states, state_change_callbacks, architect_relationships, creating, cpc,
                   cidx, notified, listening, callback_failed, collaborators,
                   current_task, terminated, hpc, hinst, op_error>>
    /\ UNCHANGED notagent

\* update_agent_state ends with _notify_state_change: the listeners are
\* awaited and the error of one that raises is logged.
Notified ==
    callback_failed' = (callback_failed \/ Elements(state_change_callbacks) \cap Faulty # {})

\* _calculate_collaboration_strength, in tenths: 0 if a focus is empty, else
\* 4 for the same area, 3 for the same task type and 3 for the same location
\* (a key both lack compares equal).
_calculate_collaboration_strength(focus1, focus2) ==
    IF focus1 = NoFocus \/ focus2 = NoFocus
    THEN 0
    ELSE (IF focus1.area = focus2.area THEN 4 ELSE 0)
         + (IF focus1.task_type = focus2.task_type THEN 3 ELSE 0)
         + (IF focus1.location = focus2.location THEN 3 ELSE 0)

\* The places in instances, in dict order, of the other instances whose focus
\* overlaps f by more than 0.5.
Overlapping(instance_id, f) ==
    {k \in DOMAIN stored :
        /\ stored[k] # instance_id
        /\ _calculate_collaboration_strength(f, focus[stored[k]]) > 5}
First(places) == CHOOSE k \in places : \A l \in places : k <= l

\* _update_collaborations that records the collaboration under one id only.
_update_collaborations_one_way(instance_id, f) ==
    /\ instances[instance_id] # "absent"
    /\ IF Overlapping(instance_id, f) = {}
       THEN /\ op_error' = "None"
            /\ UNCHANGED <<collaborators, callback_failed>>
       ELSE /\ collaborators' =
                  [collaborators EXCEPT
                     ![instance_id] = @ \cup {stored[First(Overlapping(instance_id, f))]}]
            /\ Notified
            /\ op_error' = "TypeError"
    /\ UNCHANGED <<states, state_change_callbacks, instances, architect_relationships,
                   creating, cpc, cidx, notified, listening, focus, stored, current_task,
                   terminated, hpc, hinst>>
    /\ UNCHANGED notagent

\* _update_collaborations(instance_id, focus) called for a stored instance:
\* the first other instance with enough overlap and the instance are added to
\* each other's relationship set, then _notify_collaboration updates both
\* agent states and awaits add_collective_knowledge, which is a plain function
\* that returns None: the await raises TypeError and ends the loop.
_update_collaborations(instance_id, f) ==
    /\ instances[instance_id] # "absent"
    /\ IF Overlapping(instance_id, f) = {}
       THEN /\ op_error' = "None"
            /\ UNCHANGED <<collaborators, callback_failed>>
       ELSE /\ collaborators' =
                  [i \in InstanceIds |->
                     IF i = instance_id
                     THEN collaborators[i] \cup {stored[First(Overlapping(instance_id, f))]}
                     ELSE IF i = stored[First(Overlapping(instance_id, f))]
                          THEN collaborators[i] \cup {instance_id}
                          ELSE collaborators[i]]
            /\ Notified
            /\ op_error' = "TypeError"
    /\ UNCHANGED <<states, state_change_callbacks, instances, architect_relationships,
                   creating, cpc, cidx, notified, listening, focus, stored, current_task,
                   terminated, hpc, hinst>>
    /\ UNCHANGED notagent

\* handle_request(instance_id, ...) up to the await of the architect: an
\* unknown instance and one whose agent state is not active raise ValueError;
\* otherwise current_task is set and the architect is invoked.
handle_request(instance_id) ==
    /\ hpc # "in_architect"
    /\ hinst' = instance_id
    /\ IF instances[instance_id] = "absent" \/ states[instance_id] # "active"
       THEN /\ hpc' = "ValueError"
            /\ UNCHANGED <<current_task, callback_failed>>
       ELSE /\ current_task' = [current_task EXCEPT ![instance_id] = "process_request"]
            /\ Notified
            /\ hpc' = "in_architect"
    /\ UNCHANGED <<states, state_change_callbacks, instances, architect_relationships,
                   creating, cpc, cidx, notified, listening, collaborators, focus, stored,
                   terminated, op_error>>
    /\ UNCHANGED notagent

\* handle_request with the reset of current_task in a finally clause.
handle_request_raises_reset ==
    /\ hpc = "in_architect"
    /\ hpc' = "raised"
    /\ current_task' = [current_task EXCEPT ![hinst] = "None"]
    /\ UNCHANGED <<states, state_change_callbacks, instances, architect_relationships,
                   creating, cpc, cidx, notified, listening, callback_failed,
                   collaborators, focus, stored, terminated, hinst, op_error>>
    /\ UNCHANGED notagent

\* The architect returns a response: last_response is stored, current_task is
\* reset to None and the response is returned.
handle_request_return ==
    /\ hpc = "in_architect"
    /\ current_task' = [current_task EXCEPT ![hinst] = "None"]
    /\ Notified
    /\ hpc' = "returned"
    /\ UNCHANGED <<states, state_change_callbacks, instances, architect_relationships,
                   creating, cpc, cidx, notified, listening, collaborators, focus, stored,
                   terminated, hinst, op_error>>
    /\ UNCHANGED notagent

\* The await of the architect raises (an architect whose handle_request
\* raises, or the request task is cancelled while the architect works): the
\* exception leaves handle_request, which has no except or finally clause.
handle_request_raises ==
    /\ hpc = "in_architect"
    /\ hpc' = "raised"
    /\ UNCHANGED <<states, state_change_callbacks, instances, architect_relationships,
                   creating, cpc, cidx, notified, listening, callback_failed,
                   collaborators, focus, stored, current_task, terminated, hinst,
                   op_error>>
    /\ UNCHANGED notagent

\* pause_instance, resume_instance and terminate_instance for a stored
\* instance: the status of the instance and of its agent state is set, then
\* the await of update_architect_role, a plain function that returns None,
\* raises TypeError. For an id that is not in instances they do nothing.
SetStatus(instance_id, status) ==
    /\ instances[instance_id] # "absent"
    /\ instances' = [instances EXCEPT ![instance_id] = status]
    /\ states' = [states EXCEPT ![instance_id] = status]
    /\ Notified
    /\ op_error' = "TypeError"
    /\ UNCHANGED <<state_change_callbacks, architect_relationships, creating, cpc, cidx,
                   notified, listening, collaborators, focus, stored, current_task, hpc,
                   hinst>>
    /\ UNCHANGED notagent

pause_instance(instance_id) ==
    /\ SetStatus(instance_id, "paused")
    /\ UNCHANGED terminated

resume_instance(instance_id) ==
    /\ SetStatus(instance_id, "active")
    /\ UNCHANGED terminated

\* terminate_instance: the TypeError comes before the disconnect and before
\* del self.instances[instance_id] (lines 279-283), which are never reached.
terminate_instance(instance_id) ==
    /\ SetStatus(instance_id, "terminated")
    /\ terminated' = terminated \cup {instance_id}

\* A new InstanceManager; the channel is idle.
InitInstances ==
    /\ Init
    /\ ~autonomous_mode
    /\ ~reachable

\* Instances are created, stored by the owner, paused, resumed, terminated
\* and sent requests; their collaborations are updated.
NextInstances ==
    \/ create_instance
    \/ create_instance_finish
    \/ \E i \in InstanceIds, f \in Focuses : instances_store(i, f)
    \/ \E i \in InstanceIds, f \in Focuses : _update_collaborations(i, f)
    \/ \E i \in InstanceIds : handle_request(i)
    \/ handle_request_return
    \/ handle_request_raises
    \/ \E i \in InstanceIds : pause_instance(i)
    \/ \E i \in InstanceIds : resume_instance(i)
    \/ \E i \in InstanceIds : terminate_instance(i)

\* Instances are created, stored by the owner and terminated, and their
\* collaborations are updated.
NextCollab ==
    \/ create_instance
    \/ create_instance_finish
    \/ \E i \in InstanceIds, f \in Focuses : instances_store(i, f)
    \/ \E i \in InstanceIds, f \in Focuses : _update_collaborations(i, f)
    \/ \E i \in InstanceIds : terminate_instance(i)

\* ---- EnvironmentState ----

\* The callables put on EnvironmentState.observers: one returns at once, one
\* raises, one suspends before it returns, one calls update itself.
Observers == {"logger", "faulty", "slow", "reentrant"}
Keys == {"position", "weather"}

\* observers.append(observer): the class has no method for it, the list is public.
observers_append(observer) ==
    /\ observer \notin Elements(observers)
    /\ observers' = Append(observers, observer)
    /\ UNCHANGED <<env_state, lock, upc, uidx, called, observing>>
    /\ UNCHANGED notenv

\* update(updates) up to its first suspension: the task takes the lock (it
\* waits while another holds it), merges the updates into the state and
\* starts notifying the observers with the lock held.
update(t, k) ==
    /\ upc[t] \in {"idle", "done", "raised"}
    /\ lock = "free"
    /\ lock' = t
    /\ env_state' = env_state \cup {k}
    /\ upc' = [upc EXCEPT ![t] = "notify"]
    /\ uidx' = [uidx EXCEPT ![t] = 1]
    /\ called' = [called EXCEPT ![t] = <<>>]
    /\ observing' = [observing EXCEPT ![t] = observers]
    /\ UNCHANGED observers
    /\ UNCHANGED notenv

\* One turn of the loop of _notify_observers: the next observer is awaited.
\* Nothing catches what it raises: the exception leaves the loop and update,
\* and the lock is released on the way out. An observer that suspends leaves
\* the task suspended with the lock held. One that calls update suspends in
\* lock.acquire() for the lock its own task holds (asyncio.Lock is not
\* re-entrant); only this task could release it, so it stays there.
_notify_observers(t) ==
    /\ upc[t] = "notify"
    /\ uidx[t] <= Len(observers)
    /\ called' = [called EXCEPT ![t] = Append(@, observers[uidx[t]])]
    /\ CASE observers[uidx[t]] = "faulty" ->
                /\ upc' = [upc EXCEPT ![t] = "raised"]
                /\ lock' = "free"
                /\ UNCHANGED uidx
         [] observers[uidx[t]] = "slow" ->
                /\ upc' = [upc EXCEPT ![t] = "in_observer"]
                /\ UNCHANGED <<lock, uidx>>
         [] observers[uidx[t]] = "reentrant" ->
                /\ upc' = [upc EXCEPT ![t] = "acquire"]
                /\ UNCHANGED <<lock, uidx>>
         [] OTHER ->
                /\ uidx' = [uidx EXCEPT ![t] = @ + 1]
                /\ UNCHANGED <<lock, upc>>
    /\ UNCHANGED <<env_state, observers, observing>>
    /\ UNCHANGED notenv

\* The observer that suspended returns; the loop goes on.
observer_resume(t) ==
    /\ upc[t] = "in_observer"
    /\ upc' = [upc EXCEPT ![t] = "notify"]
    /\ uidx' = [uidx EXCEPT ![t] = @ + 1]
    /\ UNCHANGED <<env_state, observers, lock, called, observing>>
    /\ UNCHANGED notenv

\* All observers were awaited: update leaves the async with and releases the lock.
update_return(t) ==
    /\ upc[t] = "notify"
    /\ uidx[t] > Len(observers)
    /\ lock' = "free"
    /\ upc' = [upc EXCEPT ![t] = "done"]
    /\ UNCHANGED <<env_state, observers, uidx, called, observing>>
    /\ UNCHANGED notenv

\* Two tasks update one EnvironmentState while observers are added.
NextEnv ==
    \/ \E observer \in Observers : observers_append(observer)
    \/ \E t \in Updaters, k \in Keys : update(t, k)
    \/ \E t \in Updaters : _notify_observers(t)
    \/ \E t \in Updaters : observer_resume(t)
    \/ \E t \in Updaters : update_return(t)

\* ---- MemoryManager ----

MaxMemories == 2
MaxLimit == 2

Tags == {"conversation", "design"}
\* Importance in tenths: 0.5 and 1.0 (the dataclass default).
Importances == {5, 10}

\* list(tags): the members of the set in the order the set iterates them,
\* which Python does not fix for strings.
list(tags) == {l \in UNION {[1..n -> tags] : n \in 0..Cardinality(tags)} :
                 Len(l) = Cardinality(tags) /\ Elements(l) = tags}

\* json.dumps of a list of strings, as the sequence of its tokens:
\* ["conversation", "design"] is [ conversation , design ].
dumps_list(l) ==
    IF l = <<>>
    THEN <<"[", "]">>
    ELSE <<"[">> \o [i \in 1..(2 * Len(l) - 1) |->
                        IF i % 2 = 1 THEN l[(i + 1) \div 2] ELSE ", "] \o <<"]">>

\* set(json.loads(text)) of such a text.
loads_set(text) == Elements(text) \ {"[", ", ", "]"}

\* SQL: text LIKE '%' || pattern || '%' for a pattern without wildcards.
Like(text, pattern) ==
    \E i \in 0..(Len(text) - Len(pattern)) : SubSeq(text, i + 1, i + Len(pattern)) = pattern

\* The n cached ids that sort first by (importance, last_accessed): every
\* cached entry has the same importance level here, and last_accessed is the
\* time of creation, so these are the n oldest.
Bottom(cache, n) == {i \in cache : Cardinality({j \in cache : j < i}) < n}

\* _cleanup_cache: the bottom fifth (len // 5 entries) leaves the cache.
_cleanup_cache(cache) == cache \ Bottom(cache, Cardinality(cache) \div 5)

\* add_memory that never cleans the cache up.
add_memory_no_cleanup(importance, tags) ==
    /\ \E l \in list(tags) :
         memories' = Append(memories, [id |-> Len(memories) + 1,
                                       importance |-> importance,
                                       tags |-> dumps_list(l)])
    /\ memory_cache' = IF importance > 7
                       THEN memory_cache \cup {Len(memories) + 1}
                       ELSE memory_cache
    /\ UNCHANGED <<cache_size_limit, query, query_result>>
    /\ UNCHANGED notmem

\* add_memory(memory): a cache that has reached cache_size_limit is cleaned
\* up; a row with a new id, the importance and the dumped tag list is
\* inserted; the entry is cached if its importance exceeds 0.7.
add_memory(importance, tags) ==
    /\ \E l \in list(tags) :
         memories' = Append(memories, [id |-> Len(memories) + 1,
                                       importance |-> importance,
                                       tags |-> dumps_list(l)])
    /\ memory_cache' =
          LET cache == IF Cardinality(memory_cache) >= cache_size_limit
                       THEN _cleanup_cache(memory_cache)
                       ELSE memory_cache
          IN IF importance > 7 THEN cache \cup {Len(memories) + 1} ELSE cache
    /\ UNCHANGED <<cache_size_limit, query, query_result>>
    /\ UNCHANGED notmem

\* The rows the WHERE clause of query_memories selects: importance at least
\* the threshold and, if tags were given, a tags text that contains the
\* dumped list of the requested tags.
Selected(tags, importance_threshold, pattern) ==
    {i \in DOMAIN memories :
        /\ memories[i].importance >= importance_threshold
        /\ tags # {} => Like(memories[i].tags, pattern)}

\* ORDER BY importance DESC LIMIT n over a set of rows: any sequence of n of
\* them in non-increasing importance that leaves out none of higher
\* importance (SQL fixes no order among rows of equal importance).
OrderLimit(rows, n) ==
    {r \in [1..n -> rows] :
        /\ \A i, j \in 1..n : i < j =>
              /\ r[i] # r[j]
              /\ memories[r[i]].importance >= memories[r[j]].importance
        /\ \A i \in 1..n, o \in rows \ Elements(r) :
              memories[r[i]].importance >= memories[o].importance}

Min(a, b) == IF a < b THEN a ELSE b

\* _create_memory_from_row: the entry of a row, its tags parsed back to a set.
_create_memory_from_row(row) ==
    [id |-> row.id, importance |-> row.importance, tags |-> loads_set(row.tags)]

\* query_memories(tags, importance_threshold, limit).
query_memories(tags, importance_threshold, limit) ==
    /\ \E l \in list(tags) :
         \E r \in OrderLimit(Selected(tags, importance_threshold, dumps_list(l)),
                             Min(limit, Cardinality(Selected(tags, importance_threshold,
                                                             dumps_list(l))))) :
            query_result' = [i \in DOMAIN r |-> _create_memory_from_row(memories[r[i]])]
    /\ query' = [tags |-> tags, importance_threshold |-> importance_threshold,
                 limit |-> limit, n |-> Len(memories)]
    /\ UNCHANGED <<memories, memory_cache, cache_size_limit>>
    /\ UNCHANGED notmem

\* A new MemoryManager; the channel is idle.
InitMemory ==
    /\ Init
    /\ ~autonomous_mode
    /\ ~reachable

MaxCacheLimit == 6
MaxAdds == 8

\* A new MemoryManager whose cache_size_limit was set to a small value.
InitCache ==
    /\ ChannelInit
    /\ ~autonomous_mode
    /\ ~reachable
    /\ msg = None
    /\ wire = NoText
    /\ decoded = None
    /\ validation = NoValidation
    /\ vpc = "idle"
    /\ AgentInit
    /\ EnvInit
    /\ memories = <<>>
    /\ memory_cache = {}
    /\ cache_size_limit \in 1..MaxCacheLimit
    /\ query = NoQuery
    /\ query_result = <<>>
    /\ SyncInit

\* Untagged entries of either importance are added, and the store is queried.
NextCache ==
    \/ /\ Len(memories) < MaxAdds
       /\ \E importance \in Importances : add_memory(importance, {})
    \/ \E importance_threshold \in Importances : query_memories({}, importance_threshold, 1)

\* Entries are added and queried, in any order.
NextMemory ==
    \/ /\ Len(memories) < MaxMemories
       /\ \E importance \in Importances, tags \in SUBSET Tags : add_memory(importance, tags)
    \/ \E tags \in SUBSET Tags, importance_threshold \in Importances, limit \in 1..MaxLimit :
          query_memories(tags, importance_threshold, limit)

\* ---- UnityStateSync ----

\* The action states Unity reports.
ActionStates == {"placing", "done"}

\* notify_unity_state_change(instance_id, action_state): the state is stored
\* and, if pending_syncs has an Event for the instance, that Event is set.
notify_unity_state_change(instance_id, action_state) ==
    /\ action_states' = [action_states EXCEPT ![instance_id] = action_state]
    /\ event_set' = IF pending_syncs[instance_id] # "none"
                    THEN [event_set EXCEPT ![pending_syncs[instance_id]] = TRUE]
                    ELSE event_set
    /\ seen' = [w \in Waiters |->
                  seen[w] \/ (wpc[w] = "waiting" /\ winst[w] = instance_id)]
    /\ UNCHANGED <<pending_syncs, wpc, winst, wresult>>
    /\ UNCHANGED notsync

\* wait_for_unity_state(instance_id) up to its suspension: a new Event is
\* stored under the instance id, replacing the one that was there, and the
\* task waits for it.
wait_for_unity_state(w, instance_id) ==
    /\ wpc[w] \in {"idle", "returned"}
    /\ pending_syncs' = [pending_syncs EXCEPT ![instance_id] = w]
    /\ event_set' = [event_set EXCEPT ![w] = FALSE]
    /\ wpc' = [wpc EXCEPT ![w] = "waiting"]
    /\ winst' = [winst EXCEPT ![w] = instance_id]
    /\ seen' = [seen EXCEPT ![w] = FALSE]
    /\ UNCHANGED <<action_states, wresult>>
    /\ UNCHANGED notsync

\* The wait ends: with the Event set the stored state is returned, and when
\* the timeout passes first None is; either way the finally clause pops the
\* entry of the instance id, whichever task's Event it holds.
wait_for_unity_state_return(w) ==
    /\ wpc[w] = "waiting"
    /\ wresult' = [wresult EXCEPT ![w] =
                      IF event_set[w] THEN action_states[winst[w]] ELSE "None"]
    /\ pending_syncs' = [pending_syncs EXCEPT ![winst[w]] = "none"]
    /\ wpc' = [wpc EXCEPT ![w] = "returned"]
    /\ UNCHANGED <<action_states, event_set, winst, seen>>
    /\ UNCHANGED notsync

\* Tasks wait for the state of instances while Unity reports states.
NextSync ==
    \/ \E i \in InstanceIds, a \in ActionStates : notify_unity_state_change(i, a)
    \/ \E w \in Waiters, i \in InstanceIds : wait_for_unity_state(w, i)
    \/ \E w \in Waiters : wait_for_unity_state_return(w)

Next == NextCalls \/ NextGate \/ NextQueue \/ NextValidate \/ NextCorr \/ NextFault
            \/ NextCancel \/ NextFail \/ NextLoops \/ NextAgents \/ NextEnv
            \/ NextMemory \/ NextSync \/ NextCache \/ NextInstances

Spec == Init /\ [][Next]_vars
SpecValidate == InitValidate /\ [][NextValidate]_vars
SpecCorr == Init /\ [][NextCorr]_vars
SpecCancel == Init /\ [][NextCancel]_vars
SpecFail == Init /\ [][NextFail]_vars
SpecLoops == Init /\ [][NextLoops]_vars
SpecAgents == Init /\ [][NextAgents]_vars
SpecEnv == Init /\ [][NextEnv]_vars
SpecMemory == InitMemory /\ [][NextMemory]_vars
SpecSync == Init /\ [][NextSync]_vars
SpecCache == InitCache /\ [][NextCache]_vars
SpecInstances == InitInstances /\ [][NextInstances]_vars
SpecCollab == InitInstances /\ [][NextCollab]_vars
SpecCalls == Init /\ [][NextCalls]_vars
SpecGate == Init /\ [][NextGate]_vars
SpecQueue == Init /\ [][NextQueue]_vars

\* asyncio resumes every task that is ready to run: each task's own steps are
\* weakly fair. The host, the endpoint and the callers of the public methods are
\* under no obligation.
FairCalls ==
    /\ SpecCalls
    /\ \A c \in Callers : WF_vars(send_command_connected(c))
    /\ \A c \in Callers : WF_vars(send_command_recv(c))
    /\ WF_vars(connect_return)
    /\ WF_vars(_connection_monitor_tick)
    /\ WF_vars(_connection_monitor_connected)

FairFault ==
    /\ Init /\ [][NextFault]_vars
    /\ \A c \in Callers : WF_vars(send_command_connected(c))
    /\ \A c \in Callers : WF_vars(send_command_recv(c))
    /\ WF_vars(_connection_monitor_tick)
    /\ WF_vars(_connection_monitor_connected)

\* The autonomous processor and the caller it is are scheduled: a step of the
\* loop that can run does run. The host answers when it chooses to.
FairGate ==
    /\ SpecGate
    /\ WF_vars(_autonomous_action_processor)
    /\ WF_vars(_autonomous_action_processor_sleep)
    /\ WF_vars(send_command_connected("auto"))
    /\ WF_vars(send_command_recv("auto"))

FairQueue ==
    /\ SpecQueue
    /\ WF_vars(start_connected)
    /\ WF_vars(_connection_monitor_tick)
    /\ WF_vars(_connection_monitor_connected)
    /\ WF_vars(_process_message_queue_get)
    /\ WF_vars(_process_message_queue_send)

----------------------------------------------------------------------------
(* Properties *)

\* The ids the transport observed, in order.
SentIds == [i \in DOMAIN sent |-> sent[i].cmd.id]

\* The observed ids among those submitted while no transport was open.
DownSent == SelectSeq(SentIds, LAMBDA x : x \in subDown)

Ascending(seq) == \A i, j \in DOMAIN seq : i < j => seq[i] < seq[j]

\* C1: no action of a critical kind, whichever field carries the kind, is
\* transmitted by the autonomous action processor.
CriticalNeverAutoSent ==
    \A i \in DOMAIN sent :
        sent[i].cmd.origin = "auto" => sent[i].cmd.kind \notin CRITICAL_ACTIONS

\* C2: every command that an unattended decision loop dispatched and the
\* transport observed went through the critical-action gate first.
UnattendedAlwaysGated ==
    \A i \in DOMAIN sent : sent[i].cmd.origin \in Unattended => sent[i].gate

\* C3: a caller that send_command resolves with a response is resolved with the
\* response to its own command.
OwnResponse ==
    \A c \in Callers : result[c].status = "ok" => result[c].re = cmd[c].id

\* C4: every transmission on the transport happens while the connection state
\* is Connected (is_connected is set).
TransmitOnlyConnected ==
    \A i \in DOMAIN sent : sent[i].connected

\* C5: once the channel is connected, every call has returned and no send has
\* failed, the commands submitted while no transport was open have each been
\* observed by the transport exactly once, in the order submitted (ids are given
\* in submission order).
DownSubmittedInOrder ==
    (connection = "open" /\ ~send_failed /\ \A c \in Callers : ~InCall(c))
        => /\ Ascending(DownSent)
           /\ \A id \in subDown : \E i \in DOMAIN sent : sent[i].cmd.id = id

\* C6: every send_command call eventually returns, whatever the host does.
SendCommandReturns ==
    \A c \in Callers : InCall(c) ~> ~InCall(c)

\* C7: no queued message is tried more often than the retry cap allows.
RetriesCapped ==
    \A i \in Ids : attempts[i] <= retry_attempts

\* C8: a started channel whose connect failed (no connection object) becomes
\* Connected by itself once the endpoint is reachable and stays so.
StartedChannelConnects ==
    (started /\ pc["user"] = "idle" /\ connection = "None")
        ~> (is_connected \/ ~reachable)

\* C9: when a connect() call that established the transport returns,
\* is_connected is set.
ConnectSetsConnected ==
    [][(pc["user"] = "cn_connect" /\ pc'["user"] = "idle" /\ reachable)
           => is_connected']_vars

\* C10: when a connect() call that failed to establish the transport returns,
\* the state is not Connected and the caller gets an outcome other than the None
\* that a successful connect() returns.
ConnectFailureSurfaced ==
    [][(pc["user"] = "cn_connect" /\ pc'["user"] = "idle" /\ ~reachable)
           => (~is_connected' /\ connect_result' # "None")]_vars

\* C11: every disconnect() that closes the transport leaves the connection state
\* not Connected (is_connected cleared).
DisconnectClearsConnected ==
    [][disconnect => ~is_connected']_vars

\* The transport of a Connected channel dropped under a caller suspended in
\* recv() (its receive fails), with the monitor running.
TransportError ==
    /\ is_connected
    /\ connection = "closed"
    /\ pc["monitor"] # "off"
    /\ \E c \in Callers : pc[c] = "sc_recv" /\ waiter = c

\* C12: after a transport error on a Connected channel the state leaves
\* Connected, or the monitor has re-established the transport.
TransportErrorRecovers ==
    TransportError ~> (~is_connected \/ connection = "open")

\* C13: the first message a transport observes is the handshake.
FirstSentIsHandshake ==
    sent # <<>> => (sent[1].cmd.field = "type" /\ sent[1].cmd.kind = "handshake")

\* C14: no command that fails the outbound validation (validate_command) is
\* transmitted.
InvalidNeverSent ==
    \A i \in DOMAIN sent : validate_command(sent[i].cmd)

\* The message the validator was given last.
Validated == IF vpc = "revalidated" THEN decoded ELSE msg
IsValidated == vpc \in {"validated", "revalidated"}

\* C15: a message without "category" or without "type" is reported invalid with
\* a reason that is not empty, whatever else it carries.
MissingBaseFieldInvalid ==
    (IsValidated /\ (~Has(Validated, "category") \/ ~Has(Validated, "type")))
        => (~validation.is_valid /\ validation.error_message \notin {"", "None"})

\* C15, the case: a system message with its action and timestamp and a further
\* field, lacking only "type", was reported invalid.
MissingTypeRejected ==
    /\ vpc = "validated"
    /\ msg.dict
    /\ msg.category = "system"
    /\ ~Has(msg, "type")
    /\ {"action", "timestamp"} \subseteq msg.fields
    /\ msg.extra > 0
    /\ ~validation.is_valid

\* An environment message, lacking one of its two fields, that was validated.
EnvIncomplete ==
    /\ vpc = "validated"
    /\ msg.dict
    /\ msg.category = "environment"
    /\ (~Has(msg, "state_type") \/ ~Has(msg, "state_data"))

\* The reason names an environment field that m lacks.
NamesMissingEnvField(m, reason) ==
    \/ reason = "Missing state type" /\ ~Has(m, "state_type")
    \/ reason = "Missing state data" /\ ~Has(m, "state_data")

\* C16: an environment message that lacks state_type or state_data, the one
\* carrying only its category included, is reported invalid with a reason that
\* names the missing environment field.
EnvReasonNamesEnvField ==
    EnvIncomplete
        => (~validation.is_valid /\ NamesMissingEnvField(msg, validation.error_message))

\* C16 as amended: such a message is reported invalid; with "type" present the
\* reason names a missing environment field, state_type before state_data, and
\* without "type" the reason names the missing type.
EnvReasonAfterStructuralPass ==
    EnvIncomplete
        => /\ ~validation.is_valid
           /\ IF Has(msg, "type")
              THEN /\ NamesMissingEnvField(msg, validation.error_message)
                   /\ ~Has(msg, "state_type")
                          => validation.error_message = "Missing state type"
              ELSE validation.error_message = "Message type not specified"

\* C16, the case: an environment message with type and state_type and without
\* state_data was reported invalid for its missing state data.
EnvMissingStateDataRejected ==
    /\ EnvIncomplete
    /\ Has(msg, "type")
    /\ Has(msg, "state_type")
    /\ validation.error_message = "Missing state data"

\* C17: a message with category and type whose category is none of the four is
\* reported valid.
UnknownCategoryValid ==
    (vpc = "validated" /\ msg.dict /\ Has(msg, "type") /\ Has(msg, "category")
         /\ msg.category \notin MessageCategory)
        => validation.is_valid

\* Values that JSON has: a str, a list. A tuple is written as an array and read
\* back as a list.
JsonValues == {"str", "list"}

\* A well-formed message: a dict of JSON values that the validator accepts.
WellFormed(m) == m.dict /\ m.value \in JsonValues /\ validate_message(m).is_valid

DuplicateResponseIgnored ==
    \A c1, c2 \in Callers :
        (c1 # c2 /\ result[c1].status = "ok" /\ result[c2].status = "ok"
             /\ result[c1].re # 0)
            => result[c1].re # result[c2].re

\* C20: no send_command call returns a message that answers no command (an
\* unsolicited state update) as its response.
UnsolicitedNotReturned ==
    \A c \in Callers : result[c].status = "ok" => result[c].re # 0

\* C21: the response to a command whose wait was cancelled is delivered to no
\* send_command call as that call's response.
CancelledResponseNotDelivered ==
    \A c1, c2 \in Callers :
        (result[c1].status = "cancelled" /\ result[c2].status = "ok")
            => result[c2].re # cmd[c1].id

\* The ids of the queued messages the transport observed, in order.
DrainSent ==
    LET s == SelectSeq(sent, LAMBDA x : x.by = "drain")
    IN  [i \in DOMAIN s |-> s[i].cmd.id]

\* C22: the queued messages of the producer reach the transport in the order it
\* submitted them (ids are given in submission order).
QueuedInSubmissionOrder ==
    Ascending(DrainSent)

\* C23: validate_message raises for no input, and every result that reports
\* invalid carries a reason that is not empty.
ValidateNeverRaises ==
    /\ vpc # "raised"
    /\ (IsValidated /\ ~validation.is_valid)
           => validation.error_message \notin {"", "None"}

\* C23, the case: MessageCategory(...) raised ValueError for a category that is
\* no member, and validate_message returned a result with the reason.
ValueErrorReturned ==
    /\ vpc = "validated"
    /\ Raised(validator_method(msg))
    /\ Has(msg, "type")
    /\ ~validation.is_valid
    /\ validation.error_message = "Invalid message category"

\* C24: a system message with category and type is valid exactly when it
\* carries a timestamp (the handshake and the disconnect message are valid).
SystemValidIffTimestamp ==
    (vpc = "validated" /\ msg.dict /\ msg.category = "system" /\ Has(msg, "type"))
        => (validation.is_valid <=> Has(msg, "timestamp"))

\* The loops of the channel.
Loops == {"monitor", "drain", "auto"}

SendCommandNeverRaises ==
    \A c \in Callers :
        (cmd[c] # NoCmd /\ ~InCall(c)) => result[c].status \in {"ok", "failure"}

\* C30, the case: a send on a missing or closed transport raised inside
\* send_command, and the call returned the failure result.
SendFailureReturned ==
    /\ send_failed
    /\ \E c \in Callers : cmd[c] # NoCmd /\ ~InCall(c) /\ result[c] = Failure

\* A publication to the agent-state listeners that has ended awaited every
\* listener that was registered when it started, in registration order.
ListenersAllNotified ==
    cpc \in {"returned", "raised"} => IsPrefix(listening, notified)

\* An update that has ended awaited every observer that was registered when
\* it started, in registration order.
ObserversAllNotified ==
    \A t \in Updaters : upc[t] \in {"done", "raised"} => IsPrefix(observing[t], called[t])

\* C25: when a state change is published to several registered observers and
\* one of them raises, every other registered observer still receives the
\* change, in registration order, for the agent-state listeners and for the
\* environment-state observers alike.
FailingObserverIsolated == ListenersAllNotified /\ ObserversAllNotified

\* C26: no task holds the state lock of EnvironmentState while it is
\* suspended: update does not hold the lock while it awaits an observer, so a
\* concurrent update, or an observer that calls update, can take the lock.
NoLockHeldWhileSuspended ==
    \A t \in Updaters : lock = t => upc[t] \notin {"in_observer", "acquire"}

\* C28: a create_instance call that has ended returned an id; instances holds
\* that id with status "active" and the agent state manager holds an
\* AgentState with status "active" for the same id.
CreatedInstanceIsActive ==
    cpc \in {"returned", "raised"} =>
        /\ cpc = "returned"
        /\ instances[creating] = "active"
        /\ states[creating] = "active"

\* The stored entries the last query asked for: those among the entries
\* stored at the call whose importance is at least the threshold and whose
\* tag set contains every requested tag.
Wanted ==
    {i \in 1..query.n :
        /\ memories[i].importance >= query.importance_threshold
        /\ query.tags \subseteq loads_set(memories[i].tags)}

\* C29: query_memories(tags, importance_threshold, limit) returns the
\* min(limit, n) highest-importance entries among the n stored entries whose
\* importance is at least the threshold and whose tag set contains every
\* requested tag, in non-increasing importance order.
QueryReturnsTopMatches ==
    query # NoQuery =>
        /\ Len(query_result) = Min(query.limit, Cardinality(Wanted))
        /\ \A i \in DOMAIN query_result : query_result[i].id \in Wanted
        /\ \A i, j \in DOMAIN query_result : i < j =>
              /\ query_result[i].id # query_result[j].id
              /\ query_result[i].importance >= query_result[j].importance
        /\ \A i \in DOMAIN query_result :
              \A o \in Wanted \ {query_result[k].id : k \in DOMAIN query_result} :
                 query_result[i].importance >= memories[o].importance

\* C31: the two representations of the connection state agree in every
\* reachable state: is_connected is set if and only if connection holds a
\* transport that was established and has not since been closed or dropped.
ConnectionStateAgrees == is_connected <=> connection = "open"

\* How often message i is waiting (in message_queue or held by the drain
\* loop), and how often the drain loop transmitted it.
Waiting(i) ==
    Cardinality({k \in DOMAIN message_queue : message_queue[k].id = i})
        + (IF held.id = i THEN 1 ELSE 0)
Transmitted(i) ==
    Cardinality({k \in DOMAIN sent : sent[k].by = "drain" /\ sent[k].cmd.id = i})

\* C32: the drain loop neither loses nor duplicates a queued message: every
\* message put on message_queue is either waiting exactly once (in the queue
\* or held by the loop) and not transmitted, or transmitted exactly once and
\* waiting nowhere.
NeitherLostNorDuplicated ==
    \A i \in 1..(nextId - 1) : Waiting(i) + Transmitted(i) = 1

\* C32 case: a message whose transmission failed was put back and later
\* transmitted, while another message is still waiting.
RequeuedThenTransmitted ==
    /\ send_failed
    /\ \E i \in 1..(nextId - 1) : attempts[i] >= 2 /\ Transmitted(i) = 1
    /\ \E i \in 1..(nextId - 1) : Waiting(i) = 1

\* C33: a critical or a failing action does not block the autonomous
\* processor: once the processor runs, every non-critical action on
\* action_queue is eventually handed to send_command.
QueuedActionEventuallyHanded ==
    \A i \in Ids :
        (/\ pc["auto"] # "off"
         /\ \E k \in DOMAIN action_queue :
               action_queue[k].id = i /\ ~_requires_user_approval(action_queue[k]))
            ~> (cmd["auto"].id = i)

\* C34: when Unity reports the state of an instance while tasks wait for it
\* (before their waits time out), every one of these waiters returns the
\* reported state; none is left to time out because another registered or
\* finished.
NotifiedWaiterGetsState ==
    \A w \in Waiters : (wpc[w] = "returned" /\ seen[w]) => wresult[w] \in ActionStates

\* The cache holds at most cache_size_limit entries, and every cached entry
\* has importance greater than 0.7.
CacheBounded ==
    /\ Cardinality(memory_cache) <= cache_size_limit
    /\ \A i \in memory_cache : memories[i].importance > 7

CreateInstanceAllOrNothing ==
    cpc = "raised" =>
        /\ states[creating] = "absent"
        /\ creating \notin architect_relationships
        /\ instances[creating] = "absent"

\* C36: handle_request invokes the architect only for an instance that
\* exists, whose state is "active" and that was not terminated; a call that
\* raises ValueError changes no agent state; and a terminated instance is
\* never active again, whatever pause_instance, resume_instance and
\* handle_request calls follow.
OnlyActiveInstancesHandled ==
    [][/\ (hpc' = "in_architect" /\ hpc # "in_architect") =>
              /\ instances[hinst'] # "absent"
              /\ states[hinst'] = "active"
              /\ hinst' \notin terminated
       /\ (hpc' = "ValueError" /\ (hpc # "ValueError" \/ hinst' # hinst)) =>
              /\ states' = states
              /\ current_task' = current_task
       /\ \A i \in terminated : states'[i] # "active" /\ instances'[i] # "active"]_vars

\* C37: after handle_request has finished, by returning a response or because
\* the architect raised, the agent state's current_task is None.
CurrentTaskResetAfterRequest ==
    hpc \in {"returned", "raised"} => current_task[hinst] = "None"

\* C39: the collaboration relation is symmetric and irreflexive: b is in
\* architect_relationships[a] exactly when a is in architect_relationships[b],
\* no id is its own collaborator, and every id in a relationship set has its
\* own entry in architect_relationships.
CollaborationSymmetric ==
    \A a \in InstanceIds :
        /\ a \notin collaborators[a]
        /\ collaborators[a] # {} => a \in architect_relationships
        /\ \A b \in collaborators[a] :
              b \in architect_relationships /\ a \in collaborators[b]

\* C39 case: two instances collaborate, and one of them was terminated since.
CollaboratorsAfterTerminate ==
    \E a, b \in InstanceIds :
        /\ b \in collaborators[a]
        /\ a \in terminated
        /\ op_error = "TypeError"
====
